---- MODULE Spec2Model ----
\* Model of the MVCC layer (storage/mvcc.rs) over the key-value Engine
\* (storage/engine.rs, storage/disk.rs) and of the SQL session that drives it
\* (sql/engine/mod.rs, sql/engine/kv.rs, sql/executor/mutation.rs).
\*
\* Bytes are integers 0..255, byte strings are sequences of bytes, and the
\* engine is the ordered map the Engine trait exposes: a function from the
\* byte strings that are present to their values.  An Option<T> is a sequence
\* of length at most one: <<>> is None, <<x>> is Some(x).
EXTENDS Integers, Sequences, FiniteSets, TLC

\* ---------------------------------------------------------------- bounds
MaxTxns == 3            \* number of begin calls explored
MaxWrites == 2          \* number of successful set/delete calls explored
MaxStmts == 3           \* statements a session executes
MaxHandles == 4         \* transactions of the retry scenario
MaxRetryWrites == 3     \* set calls of the retry scenario that return Ok

\* raw keys, raw values and raw prefixes handed to the MVCC layer
RawKeys == {<<97, 0>>, <<98>>}
RawValues == {<<>>, <<7>>}
RawPrefixes == {<<>>, <<97>>, <<97, 0>>}

Handles == 1..(IF MaxHandles > MaxTxns THEN MaxHandles ELSE MaxTxns)

None == <<>>
Some(x) == <<x>>

\* ------------------------------------------------- byte-string utilities
\* Byte-lexicographic order of Vec<u8>, the order of the keydir BTreeMap.
LexLess(a, b) ==
    LET n == IF Len(a) < Len(b) THEN Len(a) ELSE Len(b)
        D == {i \in 1..n : a[i] # b[i]}
    IN  IF D = {} THEN Len(a) < Len(b)
        ELSE LET i == CHOOSE i \in D : \A j \in D : i <= j IN a[i] < b[i]

LexLeq(a, b) == a = b \/ LexLess(a, b)

RECURSIVE SortedSeq(_)
\* The members of a set of byte strings in ascending byte order.
SortedSeq(S) ==
    IF S = {} THEN <<>>
    ELSE LET m == CHOOSE x \in S : \A y \in S : LexLeq(x, y)
         IN  <<m>> \o SortedSeq(S \ {m})

Reverse(s) == [i \in 1..Len(s) |-> s[Len(s) + 1 - i]]

\* u64 as 8 big-endian bytes (keycode integers); versions stay below 2^31.
U64BE(n) == [i \in 1..8 |-> IF i < 5 THEN 0
                            ELSE (n \div (256 ^ (8 - i))) % 256]
\* u64::MAX as 8 big-endian bytes
U64MaxBE == [i \in 1..8 |-> 255]
\* the u64 held in bytes i..i+7 of b, big-endian
U64FromBE(b, i) ==
    b[i + 4] * 16777216 + b[i + 5] * 65536 + b[i + 6] * 256 + b[i + 7]

\* u64 as 8 little-endian bytes (bincode fixed-width integers)
U64LE(n) == [i \in 1..8 |-> IF i > 4 THEN 0
                            ELSE (n \div (256 ^ (i - 1))) % 256]
U64FromLE(b) == b[1] + b[2] * 256 + b[3] * 65536 + b[4] * 16777216

\* ------------------------------------------------------------ key codec
\* keycode: a byte-string field escapes 0x00 as 0x00 0xFF and ends with
\* 0x00 0x00.
RECURSIVE EscapeBytes(_)
EscapeBytes(k) ==
    IF k = <<>> THEN <<0, 0>>
    ELSE (IF Head(k) = 0 THEN <<0, 255>> ELSE <<Head(k)>>) \o EscapeBytes(Tail(k))

RECURSIVE UnescapeFrom(_, _)
\* Reads an escaped field that starts at index i of b: the raw bytes and the
\* index after the terminator.
UnescapeFrom(b, i) ==
    IF b[i] = 0
    THEN IF b[i + 1] = 0 THEN [raw |-> <<>>, next |-> i + 2]
         ELSE LET r == UnescapeFrom(b, i + 2)
              IN  [raw |-> <<0>> \o r.raw, next |-> r.next]
    ELSE LET r == UnescapeFrom(b, i + 1)
         IN  [raw |-> <<b[i]>> \o r.raw, next |-> r.next]

\* enum MvccKey: variant index as one byte, then the fields in order
TagNextVersion == 0
TagTxnActive == 1
TagTxnWrite == 2
TagVersion == 3

KeyNextVersion == <<TagNextVersion>>
KeyTxnActive(v) == <<TagTxnActive>> \o U64BE(v)
KeyTxnWrite(v, k) == <<TagTxnWrite>> \o U64BE(v) \o EscapeBytes(k)
KeyVersion(k, v) == <<TagVersion>> \o EscapeBytes(k) \o U64BE(v)
\* MvccKey::Version(key, u64::MAX).encode()
KeyVersionMax(k) == <<TagVersion>> \o EscapeBytes(k) \o U64MaxBE

\* enum MvccKeyPrefix
PrefixTxnActive == <<TagTxnActive>>
PrefixTxnWrite(v) == <<TagTxnWrite>> \o U64BE(v)
PrefixVersion(k) == <<TagVersion>> \o EscapeBytes(k)

\* MvccKey::decode
decode(b) ==
    IF b[1] = TagNextVersion THEN [tag |-> TagNextVersion, version |-> 0, raw |-> <<>>]
    ELSE IF b[1] = TagTxnActive
    THEN [tag |-> TagTxnActive, version |-> U64FromBE(b, 2), raw |-> <<>>]
    ELSE IF b[1] = TagTxnWrite
    THEN [tag |-> TagTxnWrite, version |-> U64FromBE(b, 2),
          raw |-> UnescapeFrom(b, 10).raw]
    ELSE LET r == UnescapeFrom(b, 2)
         IN  [tag |-> TagVersion, version |-> U64FromBE(b, r.next), raw |-> r.raw]

\* bincode::serialize(&Option<Vec<u8>>): 0 for None, 1 then the u64 length
\* and the bytes for Some
SerializeOption(o) ==
    IF o = None THEN <<0>> ELSE <<1>> \o U64LE(Len(o[1])) \o o[1]
\* bincode::deserialize::<Option<Vec<u8>>>
DeserializeOption(b) ==
    IF b[1] = 0 THEN None ELSE Some(SubSeq(b, 10, 9 + U64FromLE(SubSeq(b, 2, 9))))

\* ------------------------------------------------------- storage engine
EmptyEngine == << >>

Engine_set(e, k, v) == [x \in (DOMAIN e) \cup {k} |-> IF x = k THEN v ELSE e[x]]
Engine_get(e, k) == IF k \in DOMAIN e THEN Some(e[k]) ELSE None
Engine_delete(e, k) == [x \in (DOMAIN e) \ {k} |-> e[x]]

\* scan(from..=to): the keys of the range in ascending order
Engine_scan(e, from, to) ==
    SortedSeq({k \in DOMAIN e : LexLeq(from, k) /\ LexLeq(k, to)})

\* the excluded upper bound of scan_prefix: the last byte incremented
PrefixEnd(p) ==
    IF p = <<>> THEN p
    ELSE [p EXCEPT ![Len(p)] = (p[Len(p)] + 1) % 256]
\* scan_prefix(prefix): scan((Included(prefix), Excluded(PrefixEnd(prefix))))
Engine_scan_prefix(e, p) ==
    SortedSeq({k \in DOMAIN e : LexLeq(p, k) /\ LexLess(k, PrefixEnd(p))})

RECURSIVE DeleteAll(_, _)
\* for key in delete_keys { engine.delete(key) }
DeleteAll(e, ks) ==
    IF ks = <<>> THEN e ELSE DeleteAll(Engine_delete(e, Head(ks)), Tail(ks))

\* ----------------------------------------------------------- MVCC layer
\* struct TransactionState
TransactionState(v, a) == [version |-> v, active_versions |-> a]

Ok(x) == [err |-> "none", val |-> x]
Err(kind) == [err |-> kind, val |-> None]

\* is_visible without the test of the active set
is_visible_ignores_active(st, version) == version <= st.version

\* is_visible with the own version excluded
is_visible_excludes_self(st, version) ==
    IF version \in st.active_versions THEN FALSE ELSE version < st.version

is_visible(st, version) ==
    IF version \in st.active_versions THEN FALSE ELSE version <= st.version

RECURSIVE ScanActiveFold(_, _)
ScanActiveFold(keys, acc) ==
    IF keys = <<>> THEN acc
    ELSE ScanActiveFold(Tail(keys), acc \cup {decode(Head(keys)).version})
\* scan_active that drops the first key of the scan
scan_active_skips_first(e) ==
    IF Engine_scan_prefix(e, PrefixTxnActive) = <<>> THEN {}
    ELSE ScanActiveFold(Tail(Engine_scan_prefix(e, PrefixTxnActive)), {})

\* MvccTransaction::scan_active
scan_active(e) == ScanActiveFold(Engine_scan_prefix(e, PrefixTxnActive), {})

\* begin that does not scan the active transactions
begin_without_snapshot(e) ==
    LET stored == Engine_get(e, KeyNextVersion)
        next_version == IF stored = None THEN 1 ELSE U64FromLE(stored[1])
        e1 == Engine_set(e, KeyNextVersion, U64LE(next_version + 1))
        e2 == Engine_set(e1, KeyTxnActive(next_version), <<>>)
    IN  [engine |-> e2, state |-> TransactionState(next_version, {})]

\* begin that scans the active transactions after it has written its own
\* TxnActive entry
begin_scans_after_insert(e) ==
    LET stored == Engine_get(e, KeyNextVersion)
        next_version == IF stored = None THEN 1 ELSE U64FromLE(stored[1])
        e1 == Engine_set(e, KeyNextVersion, U64LE(next_version + 1))
        e2 == Engine_set(e1, KeyTxnActive(next_version), <<>>)
    IN  [engine |-> e2, state |-> TransactionState(next_version, scan_active(e2))]

\* begin that writes the version it assigns back as NextVersion
begin_keeps_counter(e) ==
    LET stored == Engine_get(e, KeyNextVersion)
        next_version == IF stored = None THEN 1 ELSE U64FromLE(stored[1])
        e1 == Engine_set(e, KeyNextVersion, U64LE(next_version))
        active_versions == scan_active(e1)
        e2 == Engine_set(e1, KeyTxnActive(next_version), <<>>)
    IN  [engine |-> e2, state |-> TransactionState(next_version, active_versions)]

\* begin that starts the counter at 0 when NextVersion is absent
begin_from_zero(e) ==
    LET stored == Engine_get(e, KeyNextVersion)
        next_version == IF stored = None THEN 0 ELSE U64FromLE(stored[1])
        e1 == Engine_set(e, KeyNextVersion, U64LE(next_version + 1))
        active_versions == scan_active(e1)
        e2 == Engine_set(e1, KeyTxnActive(next_version), <<>>)
    IN  [engine |-> e2, state |-> TransactionState(next_version, active_versions)]

\* MvccTransaction::begin: the engine after the call and the handle's state
begin(e) ==
    LET stored == Engine_get(e, KeyNextVersion)
        next_version == IF stored = None THEN 1 ELSE U64FromLE(stored[1])
        e1 == Engine_set(e, KeyNextVersion, U64LE(next_version + 1))
        active_versions == scan_active(e1)
        e2 == Engine_set(e1, KeyTxnActive(next_version), <<>>)
    IN  [engine |-> e2, state |-> TransactionState(next_version, active_versions)]

\* commit that leaves the TxnActive entry in place
commit_keeps_active(e, st) ==
    DeleteAll(e, Engine_scan_prefix(e, PrefixTxnWrite(st.version)))

\* commit that also deletes the Version entries, as rollback does
commit_drops_versions(e, st) ==
    LET keys == Engine_scan_prefix(e, PrefixTxnWrite(st.version))
        delete_keys ==
            [i \in 1..Len(keys) |-> KeyVersion(decode(keys[i]).raw, st.version)] \o keys
    IN  Engine_delete(DeleteAll(e, delete_keys), KeyTxnActive(st.version))

\* MvccTransaction::commit
commit(e, st) ==
    LET delete_keys == Engine_scan_prefix(e, PrefixTxnWrite(st.version))
    IN  Engine_delete(DeleteAll(e, delete_keys), KeyTxnActive(st.version))

RECURSIVE RollbackKeys(_, _)
\* the delete_keys of rollback: for every TxnWrite key, the Version key and
\* then the TxnWrite key itself
RollbackKeys(keys, version) ==
    IF keys = <<>> THEN <<>>
    ELSE <<KeyVersion(decode(Head(keys)).raw, version), Head(keys)>>
         \o RollbackKeys(Tail(keys), version)

\* rollback that deletes the TxnWrite entries only, as commit does
rollback_keeps_versions(e, st) ==
    LET delete_keys == Engine_scan_prefix(e, PrefixTxnWrite(st.version))
    IN  Engine_delete(DeleteAll(e, delete_keys), KeyTxnActive(st.version))

\* MvccTransaction::rollback
rollback(e, st) ==
    LET delete_keys ==
            RollbackKeys(Engine_scan_prefix(e, PrefixTxnWrite(st.version)), st.version)
    IN  Engine_delete(DeleteAll(e, delete_keys), KeyTxnActive(st.version))

RECURSIVE GetWalk(_, _, _)
\* the loop of get over the reversed scan: the newest visible version
GetWalk(e, st, keys) ==
    IF keys = <<>> THEN Ok(None)
    ELSE LET d == decode(Head(keys))
         IN  IF d.tag # TagVersion THEN Err("internal")
             ELSE IF is_visible(st, d.version)
                  THEN Ok(DeserializeOption(e[Head(keys)]))
                  ELSE GetWalk(e, st, Tail(keys))

\* get that walks the scan from the oldest version
get_oldest_first(e, st, key) ==
    LET from == KeyVersion(key, 0)
        to == KeyVersion(key, st.version)
    IN  GetWalk(e, st, Engine_scan(e, from, to))

\* MvccTransaction::get
get(e, st, key) ==
    LET from == KeyVersion(key, 0)
        to == KeyVersion(key, st.version)
    IN  GetWalk(e, st, Reverse(Engine_scan(e, from, to)))

RECURSIVE ScanFold(_, _, _, _)
\* the loop of scan_prefix: results is the BTreeMap raw key -> raw value
ScanFold(e, st, keys, results) ==
    IF keys = <<>> THEN Ok(results)
    ELSE LET d == decode(Head(keys))
             o == DeserializeOption(e[Head(keys)])
         IN  IF d.tag # TagVersion THEN Err("internal")
             ELSE IF ~is_visible(st, d.version)
                  THEN ScanFold(e, st, Tail(keys), results)
                  ELSE IF o = None
                       THEN ScanFold(e, st, Tail(keys),
                                [x \in (DOMAIN results) \ {d.raw} |-> results[x]])
                       ELSE ScanFold(e, st, Tail(keys),
                                [x \in (DOMAIN results) \cup {d.raw} |->
                                    IF x = d.raw THEN o[1] ELSE results[x]])

\* Engine::scan_prefix on a prefix whose last byte is 0xFF: `*last += 1`
\* panics on the overflow in a debug build; a release build wraps the byte to
\* 0, the start of the range is then above its end and BTreeMap::range
\* panics in DiskEngine::scan
Engine_scan_prefix_panics(p) == p # <<>> /\ p[Len(p)] = 255

\* MvccTransaction::scan_prefix: the ScanResult list in key order; a panic
\* of the engine's scan_prefix unwinds through it
scan_prefix(e, st, prefix) ==
    LET full == PrefixVersion(prefix)
        enc_prefix == SubSeq(full, 1, Len(full) - 2)
        r == ScanFold(e, st, Engine_scan_prefix(e, enc_prefix), << >>)
    IN  IF Engine_scan_prefix_panics(enc_prefix) THEN Err("panic")
        ELSE IF r.err # "none" THEN r
        ELSE LET ks == SortedSeq(DOMAIN r.val)
             IN  Ok([i \in 1..Len(ks) |-> <<ks[i], r.val[ks[i]]>>])

Min(S) == CHOOSE x \in S : \A y \in S : x <= y

\* the conflict scan starting above the own version whatever is active
ConflictFrom_ignores_active(st) == st.version + 1

\* the conflict scan starting at the greatest active version
ConflictFrom_max_active(st) ==
    IF st.active_versions = {} THEN st.version + 1
    ELSE CHOOSE x \in st.active_versions : \A y \in st.active_versions : y <= x

\* the lower version bound of the conflict scan
ConflictFrom(st) ==
    IF st.active_versions = {} THEN st.version + 1 ELSE Min(st.active_versions)

\* write_inner that writes the Version entry without the TxnWrite entry
write_inner_skips_record(e, st, key, value) ==
    LET from == KeyVersion(key, ConflictFrom(st))
        to == KeyVersionMax(key)
        found == Engine_scan(e, from, to)
        last == decode(found[Len(found)])
        e2 == Engine_set(e, KeyVersion(key, st.version), SerializeOption(value))
    IN  IF found # <<>> /\ last.tag # TagVersion
        THEN [engine |-> e, err |-> "internal"]
        ELSE IF found # <<>> /\ ~is_visible(st, last.version)
        THEN [engine |-> e, err |-> "conflict"]
        ELSE [engine |-> e2, err |-> "none"]

\* write_inner that records the TxnWrite entry before it checks for a conflict
write_inner_records_first(e, st, key, value) ==
    LET from == KeyVersion(key, ConflictFrom(st))
        to == KeyVersionMax(key)
        found == Engine_scan(e, from, to)
        last == decode(found[Len(found)])
        e1 == Engine_set(e, KeyTxnWrite(st.version, key), <<>>)
        e2 == Engine_set(e1, KeyVersion(key, st.version), SerializeOption(value))
    IN  IF found # <<>> /\ last.tag # TagVersion
        THEN [engine |-> e1, err |-> "internal"]
        ELSE IF found # <<>> /\ ~is_visible(st, last.version)
        THEN [engine |-> e1, err |-> "conflict"]
        ELSE [engine |-> e2, err |-> "none"]

\* MvccTransaction::write_inner: the engine after the call and the result
write_inner(e, st, key, value) ==
    LET from == KeyVersion(key, ConflictFrom(st))
        to == KeyVersionMax(key)
        found == Engine_scan(e, from, to)
        last == decode(found[Len(found)])
        e1 == Engine_set(e, KeyTxnWrite(st.version, key), <<>>)
        e2 == Engine_set(e1, KeyVersion(key, st.version), SerializeOption(value))
    IN  IF found # <<>> /\ last.tag # TagVersion
        THEN [engine |-> e, err |-> "internal"]
        ELSE IF found # <<>> /\ ~is_visible(st, last.version)
        THEN [engine |-> e, err |-> "conflict"]
        ELSE [engine |-> e2, err |-> "none"]

\* ------------------------------------------------- log engine: state
\* the path of a log and the path compaction uses for its new log
Paths == {"db.log", "db.compact"}
\* PathBuf::set_extension("compact")
CompactPath(p) == "db.compact"

\* the DiskEngine values the callers hold
LogInsts == 1..2

\* no DiskEngine: never opened, or dropped
NoEngine == [open |-> FALSE, path |-> "", keydir |-> << >>, how |-> "none"]

LogCall(op, i, arg, res) == [op |-> op, i |-> i, arg |-> arg, res |-> res]

VARIABLES
    files,      \* path -> the bytes of the file; a missing file and an empty
                \* one are the same to every call of the engine
    inst,       \* instance -> the DiskEngine it holds: its path, its keydir
                \* and the constructor that made it; the exclusive lock of a
                \* path is held by the open instance of that path
    lastLog,    \* the last call on a DiskEngine: operation, instance,
                \* argument and result
    nLogOps,    \* the number of set/delete calls so far
    nCompacts   \* the number of new_compact calls so far

logVars == <<files, inst, lastLog, nLogOps, nCompacts>>

\* ------------------------------------------------------- state machine
VARIABLES
    engine,     \* the shared engine behind Arc<Mutex<E>>
    txn,        \* handle -> TransactionState of the MvccTransaction
    phase,      \* handle -> "none" | "live" | "committed" | "rolledback":
                \* what the caller has done with the handle; "orphaned"
                \* when the process stopped while the handle was live
    writes,     \* handle -> (raw key -> Option value) of its successful writes
    commitSeq,  \* the handles in the order their commit returned
    endedAtBegin, \* handle -> the handles whose commit or rollback had
                \* returned, or whose process had stopped, when its begin
                \* returned
    nWrites,    \* the number of successful set/delete calls so far
    last,       \* the last call: operation, handle, argument and result
    done,       \* the statements the session has executed, with the version
                \* of the transaction and the result of each
    poisoned,   \* the Mutex of the engine is poisoned: a call panicked while
                \* it held the lock
    conflicts   \* handle -> the <<raw key, version>> pairs of the
                \* WriteConflict errors it received in the retry scenario:
                \* the key of the call and the version the conflict scan found

mvccVars == <<engine, txn, phase, writes, commitSeq, endedAtBegin, nWrites, last, done,
             poisoned, conflicts>>

vars == <<engine, txn, phase, writes, commitSeq, endedAtBegin, nWrites, last, done,
         poisoned, conflicts, files, inst, lastLog, nLogOps, nCompacts>>

NoState == TransactionState(0, {})
Begun == {h \in Handles : phase[h] # "none"}
Terminal == {"committed", "rolledback"}

Call(op, h, key, res) == [op |-> op, h |-> h, key |-> key, res |-> res]

Init ==
    /\ engine = EmptyEngine
    /\ txn = [h \in Handles |-> NoState]
    /\ phase = [h \in Handles |-> "none"]
    /\ writes = [h \in Handles |-> << >>]
    /\ commitSeq = <<>>
    /\ endedAtBegin = [h \in Handles |-> {}]
    /\ nWrites = 0
    /\ done = <<>>
    /\ last = Call("init", 0, <<>>, Ok(None))
    /\ poisoned = FALSE
    /\ conflicts = [h \in Handles |-> {}]
    /\ files = [p \in Paths |-> <<>>]
    /\ inst = [i \in LogInsts |-> NoEngine]
    /\ lastLog = LogCall("init", 0, <<>>, Ok(None))
    /\ nLogOps = 0
    /\ nCompacts = 0

\* Mvcc::begin into the handle h
BeginAs(h) ==
    /\ ~poisoned
    /\ phase[h] = "none"
    /\ \A g \in Handles : g < h => phase[g] # "none"
    /\ LET r == begin(engine)
       IN  /\ engine' = r.engine
           /\ txn' = [txn EXCEPT ![h] = r.state]
           /\ last' = Call("begin", h, <<>>, Ok(Some(<<r.state.version>>)))
    /\ phase' = [phase EXCEPT ![h] = "live"]
    /\ endedAtBegin' = [endedAtBegin EXCEPT ![h] =
                           {g \in Handles : phase[g] \in Terminal \cup {"orphaned"}}]
    /\ UNCHANGED <<writes, commitSeq, nWrites, done, poisoned, conflicts, logVars>>

\* Mvcc::begin: every Mvcc clone shares the engine, so one action serves all
Begin == \E h \in 1..MaxTxns : BeginAs(h)

\* the version the conflict scan of write_inner finds last, if any
ConflictFound(e, st, key) ==
    LET found == Engine_scan(e, KeyVersion(key, ConflictFrom(st)), KeyVersionMax(key))
    IN  IF found = <<>> THEN None ELSE Some(decode(found[Len(found)]).version)

\* the effect of set / delete on the engine and on the record of the call
WriteEffect(op, h, key, value) ==
    LET r == write_inner(engine, txn[h], key, value)
    IN  /\ engine' = r.engine
        /\ nWrites' = IF r.err = "none" THEN nWrites + 1 ELSE nWrites
        /\ last' = Call(op, h, key, Err(r.err))
        /\ writes' = IF r.err = "none"
                     THEN [writes EXCEPT ![h] =
                             [k \in (DOMAIN writes[h]) \cup {key} |->
                                 IF k = key THEN value ELSE writes[h][k]]]
                     ELSE writes

\* a set / delete call, while the model has successful writes left
WriteStep(op, h, key, value) ==
    /\ ~poisoned
    /\ nWrites < MaxWrites
    /\ WriteEffect(op, h, key, value)
    /\ UNCHANGED conflicts

\* MvccTransaction::set
Set(h, key, value) ==
    /\ phase[h] = "live"
    /\ WriteStep("set", h, key, Some(value))
    /\ UNCHANGED <<txn, phase, commitSeq, endedAtBegin, done, poisoned, logVars>>

\* MvccTransaction::delete
Delete(h, key) ==
    /\ phase[h] = "live"
    /\ WriteStep("delete", h, key, None)
    /\ UNCHANGED <<txn, phase, commitSeq, endedAtBegin, done, poisoned, logVars>>

\* MvccTransaction::get
Get(h, key) ==
    /\ ~poisoned
    /\ phase[h] = "live"
    /\ last' = Call("get", h, key, get(engine, txn[h], key))
    /\ UNCHANGED <<engine, txn, phase, writes, commitSeq, endedAtBegin, nWrites, done,
                   poisoned, conflicts, logVars>>

\* MvccTransaction::scan_prefix; a panic while the MutexGuard is held
\* poisons the Mutex
ScanPrefix(h, prefix) ==
    /\ ~poisoned
    /\ phase[h] = "live"
    /\ last' = Call("scan_prefix", h, prefix, scan_prefix(engine, txn[h], prefix))
    /\ poisoned' = (scan_prefix(engine, txn[h], prefix).err = "panic")
    /\ UNCHANGED <<engine, txn, phase, writes, commitSeq, endedAtBegin, nWrites, done,
                   conflicts, logVars>>

\* engine.lock()? of any operation of the handle once the Mutex is poisoned:
\* the call returns the error and touches nothing
LockFails(h) ==
    /\ poisoned
    /\ phase[h] = "live"
    /\ last' = Call("lock", h, <<>>, Err("poisoned"))
    /\ UNCHANGED <<engine, txn, phase, writes, commitSeq, endedAtBegin, nWrites, done,
                   poisoned, conflicts, logVars>>

\* the scan_prefix(TxnWrite(version)) of commit and rollback panics in the
\* engine: the encoded prefix ends with the last byte of the version
TxnWriteScanPanics(st) == Engine_scan_prefix_panics(PrefixTxnWrite(st.version))

\* MvccTransaction::commit; a panic of its scan leaves the engine as it is
\* and poisons the Mutex, whose guard the call holds
Commit(h) ==
    /\ ~poisoned
    /\ phase[h] = "live"
    /\ IF TxnWriteScanPanics(txn[h])
       THEN /\ poisoned' = TRUE
            /\ last' = Call("commit", h, <<>>, Err("panic"))
            /\ UNCHANGED <<engine, phase, commitSeq>>
       ELSE /\ engine' = commit(engine, txn[h])
            /\ phase' = [phase EXCEPT ![h] = "committed"]
            /\ commitSeq' = Append(commitSeq, h)
            /\ last' = Call("commit", h, <<>>, Ok(None))
            /\ UNCHANGED poisoned
    /\ UNCHANGED <<txn, writes, endedAtBegin, nWrites, done, conflicts, logVars>>

\* MvccTransaction::rollback; a panic of its scan leaves the engine as it
\* is and poisons the Mutex
Rollback(h) ==
    /\ ~poisoned
    /\ phase[h] = "live"
    /\ IF TxnWriteScanPanics(txn[h])
       THEN /\ poisoned' = TRUE
            /\ last' = Call("rollback", h, <<>>, Err("panic"))
            /\ UNCHANGED <<engine, phase>>
       ELSE /\ engine' = rollback(engine, txn[h])
            /\ phase' = [phase EXCEPT ![h] = "rolledback"]
            /\ last' = Call("rollback", h, <<>>, Ok(None))
            /\ UNCHANGED poisoned
    /\ UNCHANGED <<txn, writes, commitSeq, endedAtBegin, nWrites, done, conflicts, logVars>>

Next ==
    \/ Begin
    \/ \E h \in Handles, k \in RawKeys, v \in RawValues : Set(h, k, v)
    \/ \E h \in Handles, k \in RawKeys : Delete(h, k)
    \/ \E h \in Handles, k \in RawKeys : Get(h, k)
    \/ \E h \in Handles, p \in RawPrefixes : ScanPrefix(h, p)
    \/ \E h \in Handles : Commit(h)
    \/ \E h \in Handles : Rollback(h)
    \/ \E h \in Handles : LockFails(h)

Spec == Init /\ [][Next]_vars

\* ---------------------------------------------------------- SQL session
\* A Value is a kind (0 Null, 1 Integer, 2 String) with a number;
\* Value::datatype is None for Null and the kind otherwise.
ValueNull == [kind |-> 0, n |-> 0]
ValueInteger(n) == [kind |-> 1, n |-> n]
ValueString(n) == [kind |-> 2, n |-> n]
datatype(value) == IF value.kind = 0 THEN None ELSE Some(value.kind)

\* the one table of the model: a name and one Integer column that is not
\* nullable and has no default
TableT == [name |-> 116,
           columns |-> <<[datatype |-> ValueInteger(0).kind, nullable |-> FALSE,
                          default |-> None]>>]

\* bincode::serialize of enum Key { Table(String), Row(String, Value) } and of
\* a Table: the variant index, then the fields (bincode's fixed-width
\* padding is left out)
SerializeValue(value) == <<value.kind, value.n>>
KeyTable(name) == <<0, name>>
KeyRow(name, value) == <<1, name>> \o SerializeValue(value)
SerializeColumn(c) ==
    <<c.datatype, IF c.nullable THEN 1 ELSE 0>>
    \o (IF c.default = None THEN <<0>> ELSE <<1>> \o SerializeValue(c.default[1]))
RECURSIVE SerializeColumns(_)
SerializeColumns(cs) ==
    IF cs = <<>> THEN <<>> ELSE SerializeColumn(Head(cs)) \o SerializeColumns(Tail(cs))
SerializeTable(t) == <<t.name, Len(t.columns)>> \o SerializeColumns(t.columns)

RECURSIVE DeserializeColumns(_, _, _)
DeserializeColumns(b, i, n) ==
    IF n = 0 THEN <<>>
    ELSE LET has == b[i + 2] = 1
             c == [datatype |-> b[i], nullable |-> b[i + 1] = 1,
                   default |-> IF has THEN Some([kind |-> b[i + 3], n |-> b[i + 4]])
                               ELSE None]
         IN  <<c>> \o DeserializeColumns(b, i + (IF has THEN 5 ELSE 3), n - 1)
DeserializeTable(b) == [name |-> b[1], columns |-> DeserializeColumns(b, 3, b[2])]

RECURSIVE SerializeRow(_)
SerializeRow(row) ==
    IF row = <<>> THEN <<>> ELSE SerializeValue(Head(row)) \o SerializeRow(Tail(row))

\* KVTransaction::commit and KVTransaction::rollback return Ok(()) and do not
\* call the MVCC transaction: the engine is what it was.
KVTransaction_commit(e, st) == e
KVTransaction_rollback(e, st) == e

\* the Option<Table> of get_table from the result of the get
TableOfGet(r) ==
    IF r.err # "none" THEN r
    ELSE IF r.val = None THEN Ok(None)
    ELSE Ok(Some(DeserializeTable(r.val[1])))

\* KVTransaction::get_table
get_table(e, st, name) == TableOfGet(get(e, st, KeyTable(name)))

\* ok_or(Error::Internal("table does not exist"))
OkOrNoTable(r) == IF r.err = "none" /\ r.val = None THEN Err("no_table") ELSE r

\* Transaction::must_get_table
must_get_table(e, st, name) == OkOrNoTable(get_table(e, st, name))

\* create_table after its get_table returned found
CreateTableFound(e, st, table, found) ==
    IF found.err # "none" THEN [engine |-> e, err |-> found.err]
    ELSE IF found.val # None THEN [engine |-> e, err |-> "table_exists"]
    ELSE IF table.columns = <<>> THEN [engine |-> e, err |-> "no_columns"]
    ELSE write_inner(e, st, KeyTable(table.name), Some(SerializeTable(table)))

\* KVTransaction::create_table: the engine after the call and the result
create_table(e, st, table) ==
    CreateTableFound(e, st, table, get_table(e, st, table.name))

\* the validity loop of create_row: the first column the row violates
RowError(table, row) ==
    LET bad == {i \in 1..Len(table.columns) :
                   \/ datatype(row[i]) = None /\ ~table.columns[i].nullable
                   \/ /\ datatype(row[i]) # None
                      /\ datatype(row[i])[1] # table.columns[i].datatype}
    IN  IF bad = {} THEN "none"
        ELSE IF datatype(row[Min(bad)]) = None THEN "null_column"
        ELSE "type_mismatch"

\* create_row after its must_get_table returned t
CreateRowTable(e, st, name, row, t) ==
    IF t.err # "none" THEN [engine |-> e, err |-> t.err]
    ELSE IF RowError(t.val[1], row) # "none"
    THEN [engine |-> e, err |-> RowError(t.val[1], row)]
    ELSE write_inner(e, st, KeyRow(name, row[1]), Some(SerializeRow(row)))

\* KVTransaction::create_row
create_row(e, st, name, row) ==
    CreateRowTable(e, st, name, row, must_get_table(e, st, name))

\* pad_row: the row with the defaults of the columns it leaves out
pad_row(table, row) ==
    IF \E i \in (Len(row) + 1)..Len(table.columns) : table.columns[i].default = None
    THEN Err("no_default")
    ELSE Ok(row \o [j \in 1..(Len(table.columns) - Len(row)) |->
                       table.columns[Len(row) + j].default[1]])

RECURSIVE InsertRows(_, _, _, _, _, _)
RECURSIVE InsertPadded(_, _, _, _, _, _, _)
RECURSIVE InsertCreated(_, _, _, _, _, _)

\* the loop of Insert::execute over the rows that are left; count rows are
\* in already
InsertRows(e, st, name, table, rows, count) ==
    IF rows = <<>> THEN [engine |-> e, err |-> "none", count |-> count]
    ELSE InsertPadded(e, st, name, table, rows, count, pad_row(table, Head(rows)))

\* the body of the loop after pad_row returned padded
InsertPadded(e, st, name, table, rows, count, padded) ==
    IF padded.err # "none" THEN [engine |-> e, err |-> padded.err, count |-> count]
    ELSE InsertCreated(st, name, table, rows, count,
                       create_row(e, st, name, padded.val))

\* the body of the loop after create_row returned r
InsertCreated(st, name, table, rows, count, r) ==
    IF r.err # "none" THEN [engine |-> r.engine, err |-> r.err, count |-> count]
    ELSE InsertRows(r.engine, st, name, table, Tail(rows), count + 1)

\* Insert::execute after its must_get_table returned t
InsertTable(e, st, name, rows, t) ==
    IF t.err # "none" THEN [engine |-> e, err |-> t.err, count |-> 0]
    ELSE InsertRows(e, st, name, t.val[1], rows, 0)

\* Insert::execute without a column list
Insert_execute(e, st, name, rows) ==
    InsertTable(e, st, name, rows, must_get_table(e, st, name))

\* the ResultSet of CREATE TABLE carries no count
ResultOfCreate(r) == [engine |-> r.engine, err |-> r.err, count |-> 0]

\* Plan::execute on the node of the statement
Plan_execute(e, st, stmt) ==
    IF stmt.kind = "create" THEN ResultOfCreate(create_table(e, st, stmt.table))
    ELSE Insert_execute(e, st, stmt.table.name, stmt.rows)

\* the match of Session::execute on the result r of the plan: commit on Ok,
\* rollback on Err
SessionEnd(st, r) ==
    [engine |-> IF r.err = "none" THEN KVTransaction_commit(r.engine, st)
                ELSE KVTransaction_rollback(r.engine, st),
     version |-> st.version,
     err |-> r.err,
     count |-> r.count]

\* Session::execute after its begin returned b
SessionBegun(b, stmt) == SessionEnd(b.state, Plan_execute(b.engine, b.state, stmt))

\* Session::execute on a statement that parses
Session_execute(e, stmt) == SessionBegun(begin(e), stmt)

\* the statements the session is given: CREATE TABLE t, and INSERT INTO t of
\* one or two rows, some of which the table rejects
InsertStatement(rows) == [kind |-> "insert", table |-> TableT, rows |-> rows]
Statements ==
    {[kind |-> "create", table |-> TableT, rows |-> <<>>],
     InsertStatement(<< <<ValueInteger(1)>> >>),
     InsertStatement(<< <<ValueInteger(1)>>, <<ValueInteger(2)>> >>),
     InsertStatement(<< <<ValueInteger(1)>>, <<ValueString(1)>> >>),
     InsertStatement(<< <<ValueInteger(1)>>, <<>> >>),
     InsertStatement(<< <<ValueNull>> >>)}

\* Session::execute; the calls of one statement run back to back
Execute(stmt) ==
    /\ ~poisoned
    /\ Len(done) < MaxStmts
    /\ \E r \in {Session_execute(engine, stmt)} :
           /\ engine' = r.engine
           /\ done' = Append(done, [stmt |-> stmt, version |-> r.version,
                                    err |-> r.err, count |-> r.count])
           /\ last' = Call("execute", r.version, <<>>, Err(r.err))
    /\ UNCHANGED <<txn, phase, writes, commitSeq, endedAtBegin, nWrites, poisoned,
                   conflicts, logVars>>

\* a client of the same Mvcc that writes the catalog entry of the table in a
\* transaction of its own
ClientBegin == Begun = {} /\ Begin
ClientCreateTable ==
    \E h \in Handles :
        /\ phase[h] = "live"
        /\ WriteStep("set", h, KeyTable(TableT.name), Some(SerializeTable(TableT)))
        /\ UNCHANGED <<txn, phase, commitSeq, endedAtBegin, done, poisoned, logVars>>

NextSession ==
    \/ \E stmt \in Statements : Execute(stmt)
    \/ ClientBegin
    \/ ClientCreateTable
    \/ \E h \in Handles : Commit(h)

SpecSession == Init /\ [][NextSession]_vars

\* ------------------------------------------------------- retry scenario
\* Callers that retry after a WriteConflict: MaxHandles transactions that
\* set one key, commit and roll back.
RetryKey == <<98>>

RetryBegin == \E h \in 1..MaxHandles : BeginAs(h)

\* MvccTransaction::set of the key, with the conflict it returns recorded
RetrySet(h) ==
    /\ ~poisoned
    /\ phase[h] = "live"
    /\ nWrites < MaxRetryWrites
    /\ WriteEffect("set", h, RetryKey, Some(<<7>>))
    /\ conflicts' =
          IF write_inner(engine, txn[h], RetryKey, Some(<<7>>)).err = "conflict"
          THEN [conflicts EXCEPT ![h] =
                  @ \cup {<<RetryKey, ConflictFound(engine, txn[h], RetryKey)[1]>>}]
          ELSE conflicts
    /\ UNCHANGED <<txn, phase, commitSeq, endedAtBegin, done, poisoned, logVars>>

NextRetry ==
    \/ RetryBegin
    \/ \E h \in Handles : RetrySet(h)
    \/ \E h \in Handles : Commit(h)
    \/ \E h \in Handles : Rollback(h)

SpecRetry == Init /\ [][NextRetry]_vars

\* ------------------------------------------------- the version counter
WrapStart == 253        \* transactions begun and committed before the first
                        \* begin explored

RECURSIVE AfterTxns(_, _)
\* the engine after n transactions have begun and committed one by one
AfterTxns(e, n) ==
    IF n = 0 THEN e
    ELSE IF n = 1 THEN commit(begin(e).engine, begin(e).state)
    ELSE CHOOSE x \in {AfterTxns(half, n - (n \div 2)) :
                          half \in {AfterTxns(e, n \div 2)}} : TRUE

\* an engine that has served WrapStart transactions
InitWrap ==
    /\ engine = AfterTxns(EmptyEngine, WrapStart)
    /\ txn = [h \in Handles |-> NoState]
    /\ phase = [h \in Handles |-> "none"]
    /\ writes = [h \in Handles |-> << >>]
    /\ commitSeq = <<>>
    /\ endedAtBegin = [h \in Handles |-> {}]
    /\ nWrites = 0
    /\ done = <<>>
    /\ last = Call("init", 0, <<>>, Ok(None))
    /\ poisoned = FALSE
    /\ conflicts = [h \in Handles |-> {}]
    /\ files = [p \in Paths |-> <<>>]
    /\ inst = [i \in LogInsts |-> NoEngine]
    /\ lastLog = LogCall("init", 0, <<>>, Ok(None))
    /\ nLogOps = 0
    /\ nCompacts = 0

NextWrap ==
    \/ Begin
    \/ \E h \in Handles, k \in RawKeys, v \in RawValues : Set(h, k, v)
    \/ \E h \in Handles, k \in RawKeys : Get(h, k)
    \/ \E h \in Handles : Commit(h)
    \/ \E h \in Handles : Rollback(h)
    \/ \E h \in Handles : LockFails(h)

\* the transactions whose versions follow WrapStart
SpecWrap == InitWrap /\ [][NextWrap]_vars

\* ---------------------------------------------------- log engine: file
\* The log of DiskEngine (storage/disk.rs): a file of records
\*   key_len (u32, big-endian) | val_len (i32, big-endian, -1 = tombstone)
\*   | key | value
\* and the keydir, a map from each live key to (offset of its value in the
\* file, length of the value).  File offsets count from 0; byte i of a file
\* is element i + 1 of its sequence.

\* keys and values handed to the log engine
LogKeys == {<<>>, <<97>>, <<97, 255>>}
LogValues == {<<>>, <<7>>}

LOG_HEADER_SIZE == 8

\* u32::to_be_bytes
U32BE(n) == [i \in 1..4 |-> (n \div (256 ^ (4 - i))) % 256]
\* i32::to_be_bytes (two's complement)
I32BE(n) ==
    IF n >= 0 THEN U32BE(n)
    ELSE [U32BE((n + 2147483647) + 1) EXCEPT ![1] = @ + 128]
\* u32::from_be_bytes of bytes i+1..i+4 of b, for values below 2^31
U32FromBE(b, i) ==
    b[i + 1] * 16777216 + b[i + 2] * 65536 + b[i + 3] * 256 + b[i + 4]
\* i32::from_be_bytes of bytes i+1..i+4 of b
I32FromBE(b, i) ==
    IF b[i + 1] < 128 THEN U32FromBE(b, i)
    ELSE (((b[i + 1] - 128) * 16777216 + b[i + 2] * 65536 + b[i + 3] * 256
           + b[i + 4]) - 2147483647) - 1

\* BTreeMap::insert and BTreeMap::remove on the keydir
KeyDir_insert(keydir, key, entry) ==
    [x \in (DOMAIN keydir) \cup {key} |-> IF x = key THEN entry ELSE keydir[x]]
KeyDir_remove(keydir, key) == [x \in (DOMAIN keydir) \ {key} |-> keydir[x]]

\* the bytes write_entry hands to the BufWriter for a key and an Option value
EntryBytes(key, value) ==
    U32BE(Len(key))
    \o I32BE(IF value = None THEN -1 ELSE Len(value[1]))
    \o key
    \o (IF value = None THEN <<>> ELSE value[1])

\* total_size of write_entry
EntrySize(key, value) ==
    Len(key) + (IF value = None THEN 0 ELSE Len(value[1])) + LOG_HEADER_SIZE

\* a write_entry that puts the record at the start of the file
Log_write_entry_at_start(file, key, value, written) ==
    IF written >= EntrySize(key, value)
    THEN [err |-> "none", file |-> EntryBytes(key, value) \o file,
          offset |-> 0, size |-> EntrySize(key, value)]
    ELSE [err |-> "io", file |-> SubSeq(EntryBytes(key, value), 1, written) \o file,
          offset |-> 0, size |-> EntrySize(key, value)]

\* Log::write_entry.  written is how many bytes of the record reach the file
\* before the flush returns: all of them and the call returns Ok((offset,
\* total_size)), or fewer and it returns the I/O error.
Log_write_entry(file, key, value, written) ==
    IF written >= EntrySize(key, value)
    THEN [err |-> "none", file |-> file \o EntryBytes(key, value),
          offset |-> Len(file), size |-> EntrySize(key, value)]
    ELSE [err |-> "io", file |-> file \o SubSeq(EntryBytes(key, value), 1, written),
          offset |-> Len(file), size |-> EntrySize(key, value)]

\* Log::read_value: seek and read_exact.  A keydir length below 0 stands for
\* the u32 2^32 + val_size that `val_size as u32` makes of a negative
\* val_size; it is longer than every file.
Log_read_value(file, offset, val_size) ==
    IF val_size = 0 THEN Ok(<<>>)
    ELSE IF val_size > 0 /\ offset + val_size <= Len(file)
    THEN Ok(SubSeq(file, offset + 1, offset + val_size))
    ELSE Err("io")

\* Log::read_entry: the key and val_size of the record at offset; read_exact
\* fails when the file ends inside the header or inside the key.  A key_size
\* of 2^31 or more is longer than every file.
Log_read_entry(file, offset) ==
    IF offset + LOG_HEADER_SIZE > Len(file) THEN Err("io")
    ELSE IF file[offset + 1] >= 128 THEN Err("io")
    ELSE IF offset + LOG_HEADER_SIZE + U32FromBE(file, offset) > Len(file)
    THEN Err("io")
    ELSE Ok([key |-> SubSeq(file, offset + LOG_HEADER_SIZE + 1,
                            offset + LOG_HEADER_SIZE + U32FromBE(file, offset)),
             val_size |-> I32FromBE(file, offset + 4)])

RECURSIVE BuildKeydirFrom(_, _, _)
\* a turn of the loop of build_keydir that takes a record with an empty
\* value for a tombstone
BuildKeydirEntry_drops_empty(file, offset, keydir, key, val_size) ==
    IF val_size = -1 \/ val_size = 0
    THEN BuildKeydirFrom(file, offset + Len(key) + LOG_HEADER_SIZE,
                         KeyDir_remove(keydir, key))
    ELSE IF val_size < 0
    THEN Err("overflow")
    ELSE BuildKeydirFrom(file, offset + Len(key) + val_size + LOG_HEADER_SIZE,
                         KeyDir_insert(keydir, key,
                               <<offset + LOG_HEADER_SIZE + Len(key), val_size>>))

\* one turn of the loop of build_keydir on the entry read at offset.
\* A negative val_size other than -1 is cast to u64 as 2^64 + val_size: the
\* new offset is beyond the file and the loop ends, unless the addition
\* overflows u64, which panics or wraps with the build ("overflow").
BuildKeydirEntry(file, offset, keydir, key, val_size) ==
    IF val_size = -1
    THEN BuildKeydirFrom(file, offset + Len(key) + LOG_HEADER_SIZE,
                         KeyDir_remove(keydir, key))
    ELSE IF val_size < 0
    THEN IF offset + Len(key) + LOG_HEADER_SIZE + val_size >= 0
         THEN Err("overflow")
         ELSE Ok(KeyDir_insert(keydir, key,
                               <<offset + LOG_HEADER_SIZE + Len(key), val_size>>))
    ELSE BuildKeydirFrom(file, offset + Len(key) + val_size + LOG_HEADER_SIZE,
                         KeyDir_insert(keydir, key,
                               <<offset + LOG_HEADER_SIZE + Len(key), val_size>>))

BuildKeydirRead(file, offset, keydir, r) ==
    IF r.err # "none" THEN Err(r.err)
    ELSE BuildKeydirEntry(file, offset, keydir, r.val.key, r.val.val_size)

\* the loop of build_keydir from offset on
BuildKeydirFrom(file, offset, keydir) ==
    IF offset >= Len(file) THEN Ok(keydir)
    ELSE BuildKeydirRead(file, offset, keydir, Log_read_entry(file, offset))

\* Log::build_keydir
Log_build_keydir(file) == BuildKeydirFrom(file, 0, << >>)

\* -------------------------------------------------- log engine: engine
\* DiskEngine::get on a keydir and the file of its log
DiskEngine_get(keydir, file, key) ==
    IF key \notin DOMAIN keydir THEN Ok(None)
    ELSE IF Log_read_value(file, keydir[key][1], keydir[key][2]).err # "none"
    THEN Err("io")
    ELSE Ok(Some(Log_read_value(file, keydir[key][1], keydir[key][2]).val))

\* the rest of DiskEngine::set once write_entry has returned w
SetWritten(keydir, key, value, w) ==
    IF w.err # "none" THEN [err |-> w.err, keydir |-> keydir, file |-> w.file]
    ELSE [err |-> "none", file |-> w.file,
          keydir |-> KeyDir_insert(keydir, key,
                        <<w.offset + w.size - Len(value), Len(value)>>)]

\* a set that updates the keydir whatever write_entry returned
DiskEngine_set_indexes_first(keydir, file, key, value, written) ==
    [SetWritten(keydir, key, value, Log_write_entry(file, key, Some(value), written))
        EXCEPT !.keydir = KeyDir_insert(keydir, key,
                              <<Len(file) + LOG_HEADER_SIZE + Len(key), Len(value)>>)]

\* DiskEngine::set
DiskEngine_set(keydir, file, key, value, written) ==
    SetWritten(keydir, key, value, Log_write_entry(file, key, Some(value), written))

\* the rest of DiskEngine::delete once write_entry has returned w
DeleteWritten(keydir, key, w) ==
    IF w.err # "none" THEN [err |-> w.err, keydir |-> keydir, file |-> w.file]
    ELSE [err |-> "none", file |-> w.file, keydir |-> KeyDir_remove(keydir, key)]

\* a delete that writes the tombstone and leaves the keydir as it is
DiskEngine_delete_keeps_key(keydir, file, key, written) ==
    [DeleteWritten(keydir, key, Log_write_entry(file, key, None, written))
        EXCEPT !.keydir = keydir]

\* DiskEngine::delete
DiskEngine_delete(keydir, file, key, written) ==
    DeleteWritten(keydir, key, Log_write_entry(file, key, None, written))

\* DiskEngine::new once Log::new has taken the lock
DiskEngine_new(file) == Log_build_keydir(file)

RECURSIVE CompactFold(_, _, _, _, _)
\* compact: the entry after read_value returned v
CompactRead(keys, keydir, file, new_file, new_keydir, v) ==
    IF v.err # "none"
    THEN [err |-> v.err, file |-> file, scratch |-> new_file, keydir |-> keydir]
    ELSE CompactFold(Tail(keys), keydir, file,
             Log_write_entry(new_file, Head(keys), Some(v.val),
                             EntrySize(Head(keys), Some(v.val))).file,
             KeyDir_insert(new_keydir, Head(keys),
                 <<Len(new_file) + EntrySize(Head(keys), Some(v.val))
                     - keydir[Head(keys)][2], keydir[Head(keys)][2]>>))

\* compact: the loop over the keydir, then the rename of the new log over
\* the log; an error leaves the new log where it is
CompactFold(keys, keydir, file, new_file, new_keydir) ==
    IF keys = <<>>
    THEN [err |-> "none", file |-> new_file, scratch |-> <<>>, keydir |-> new_keydir]
    ELSE CompactRead(keys, keydir, file, new_file, new_keydir,
             Log_read_value(file, keydir[Head(keys)][1], keydir[Head(keys)][2]))

\* DiskEngine::compact once Log::new has opened the new log and taken its
\* lock: the log is opened without truncation and written at its end
DiskEngine_compact(keydir, file, scratch) ==
    CompactFold(SortedSeq(DOMAIN keydir), keydir, file, scratch, << >>)

\* bounds of a range: std::ops::Bound
Included(k) == [kind |-> "Included", key |-> k]
Excluded(k) == [kind |-> "Excluded", key |-> k]
Unbounded == [kind |-> "Unbounded", key |-> <<>>]

\* BTreeMap::range panics on a start above the end and on equal excluded
\* bounds
RangePanics(start, end) ==
    /\ start.kind # "Unbounded"
    /\ end.kind # "Unbounded"
    /\ \/ LexLess(end.key, start.key)
       \/ start.key = end.key /\ start.kind = "Excluded" /\ end.kind = "Excluded"

InRange(k, start, end) ==
    /\ \/ start.kind = "Unbounded"
       \/ start.kind = "Included" /\ LexLeq(start.key, k)
       \/ start.kind = "Excluded" /\ LexLess(start.key, k)
    /\ \/ end.kind = "Unbounded"
       \/ end.kind = "Included" /\ LexLeq(k, end.key)
       \/ end.kind = "Excluded" /\ LexLess(k, end.key)

\* DiskEngine::scan: the keys keydir.range(range) walks, or the panic
DiskEngine_scan(keydir, start, end) ==
    IF RangePanics(start, end) THEN [panic |-> TRUE, inner |-> <<>>]
    ELSE [panic |-> FALSE,
          inner |-> SortedSeq({k \in DOMAIN keydir : InRange(k, start, end)})]

\* DiskEngineIterator::map
Iterator_map(keydir, file, k) ==
    IF Log_read_value(file, keydir[k][1], keydir[k][2]).err # "none"
    THEN Err("io")
    ELSE Ok(<<k, Log_read_value(file, keydir[k][1], keydir[k][2]).val>>)

RECURSIVE CollectNext(_, _, _)
\* the items of an iterator consumed with next
CollectNext(keydir, file, inner) ==
    IF inner = <<>> THEN <<>>
    ELSE <<Iterator_map(keydir, file, Head(inner))>>
         \o CollectNext(keydir, file, Tail(inner))

RECURSIVE CollectNextBack(_, _, _)
\* the items of an iterator consumed with next_back
CollectNextBack(keydir, file, inner) ==
    IF inner = <<>> THEN <<>>
    ELSE <<Iterator_map(keydir, file, inner[Len(inner)])>>
         \o CollectNextBack(keydir, file, SubSeq(inner, 1, Len(inner) - 1))

\* the builds of the crate: arithmetic overflow panics with debug
\* assertions and wraps without
Builds == {"debug", "release"}

\* Engine::scan_prefix on a DiskEngine: the range it hands to scan, or the
\* panic of `*last += 1` on a last byte of 255 in a debug build
DiskEngine_scan_prefix(keydir, prefix, build) ==
    IF prefix # <<>> /\ prefix[Len(prefix)] = 255 /\ build = "debug"
    THEN [panic |-> TRUE, inner |-> <<>>]
    ELSE DiskEngine_scan(keydir, Included(prefix), Excluded(PrefixEnd(prefix)))

\* ------------------------------------------------- log engine: actions
MaxLogOps == 2          \* set/delete calls on log engines explored
MaxCompacts == 1        \* new_compact calls explored

\* prefixes handed to scan_prefix and ranges handed to scan: proper, empty,
\* with the start above the end, and with equal excluded bounds
LogPrefixes == {<<>>, <<97>>, <<97, 255>>}
ScanRanges ==
    {<<Unbounded, Unbounded>>,
     <<Included(<<>>), Excluded(<<97, 255>>)>>,
     <<Excluded(<<97>>), Unbounded>>,
     <<Included(<<97>>), Included(<<97>>)>>,
     <<Included(<<97>>), Excluded(<<97>>)>>,
     <<Included(<<97, 255>>), Excluded(<<97>>)>>,
     <<Excluded(<<97>>), Excluded(<<97>>)>>}

\* a try_lock_exclusive that never fails
Locked_never(p) == FALSE

\* try_lock_exclusive fails on p while an open engine holds the file of p
Locked(p) == \E j \in LogInsts : inst[j].open /\ inst[j].path = p

OpenEngine(p, keydir, how) ==
    [open |-> TRUE, path |-> p, keydir |-> keydir, how |-> how]

\* what get returns for every key on engine e
GetView(e) == [k \in LogKeys |-> DiskEngine_get(e.keydir, files[e.path], k)]

\* DiskEngine::new(p), held as instance i if it returns Ok
LogOpenBuilt(i, p, r) ==
    /\ lastLog' = LogCall("new", i, p, Err(r.err))
    /\ inst' = IF r.err = "none"
               THEN [inst EXCEPT ![i] = OpenEngine(p, r.val, "new")]
               ELSE inst

LogOpen(i, p) ==
    /\ ~inst[i].open
    /\ \A j \in LogInsts : j < i => inst[j].open
    /\ IF Locked(p)
       THEN lastLog' = LogCall("new", i, p, Err("lock")) /\ UNCHANGED inst
       ELSE LogOpenBuilt(i, p, DiskEngine_new(files[p]))
    /\ UNCHANGED <<files, nLogOps, nCompacts, mvccVars>>

\* new_compact(p) after new(p) returned the keydir: Log::new on the path of
\* the new log, then compact
LogCompacted(i, p, c) ==
    /\ lastLog' = LogCall("new_compact", i, p, Err(c.err))
    /\ inst' = IF c.err = "none"
               THEN [inst EXCEPT ![i] = OpenEngine(p, c.keydir, "new_compact")]
               ELSE inst
    /\ files' = [files EXCEPT ![p] = c.file, ![CompactPath(p)] = c.scratch]

LogOpenCompactBuilt(i, p, r) ==
    IF r.err # "none"
    THEN lastLog' = LogCall("new_compact", i, p, Err(r.err))
         /\ UNCHANGED <<files, inst>>
    ELSE IF CompactPath(p) = p \/ Locked(CompactPath(p))
    THEN lastLog' = LogCall("new_compact", i, p, Err("lock"))
         /\ UNCHANGED <<files, inst>>
    ELSE LogCompacted(i, p, DiskEngine_compact(r.val, files[p], files[CompactPath(p)]))

\* DiskEngine::new_compact(p), held as instance i if it returns Ok
LogOpenCompact(i, p) ==
    /\ ~inst[i].open
    /\ \A j \in LogInsts : j < i => inst[j].open
    /\ nCompacts < MaxCompacts
    /\ nCompacts' = nCompacts + 1
    /\ IF Locked(p)
       THEN lastLog' = LogCall("new_compact", i, p, Err("lock"))
            /\ UNCHANGED <<files, inst>>
       ELSE LogOpenCompactBuilt(i, p, DiskEngine_new(files[p]))
    /\ UNCHANGED <<nLogOps, mvccVars>>

\* drop of the DiskEngine: the file is closed and its lock released
LogClose(i) ==
    /\ inst[i].open
    /\ inst' = [inst EXCEPT ![i] = NoEngine]
    /\ lastLog' = LogCall("drop", i, inst[i].path, Ok(None))
    /\ UNCHANGED <<files, nLogOps, nCompacts, mvccVars>>

\* the effect of a set or delete that returned r
LogWritten(op, i, arg, r) ==
    /\ files' = [files EXCEPT ![inst[i].path] = r.file]
    /\ inst' = [inst EXCEPT ![i].keydir = r.keydir]
    /\ lastLog' = LogCall(op, i, arg, Err(r.err))
    /\ nLogOps' = nLogOps + 1
    /\ UNCHANGED <<nCompacts, mvccVars>>

\* DiskEngine::set whose write reaches the file
LogSet(i, key, value) ==
    /\ inst[i].open
    /\ nLogOps < MaxLogOps
    /\ LogWritten("set", i, <<key, value>>,
           DiskEngine_set(inst[i].keydir, files[inst[i].path], key, value,
                          EntrySize(key, Some(value))))

\* DiskEngine::delete whose write reaches the file
LogDelete(i, key) ==
    /\ inst[i].open
    /\ nLogOps < MaxLogOps
    /\ LogWritten("delete", i, <<key>>,
           DiskEngine_delete(inst[i].keydir, files[inst[i].path], key,
                             EntrySize(key, None)))

\* DiskEngine::set whose write fails after `written` bytes
LogSetFails(i, key, value, written) ==
    /\ inst[i].open
    /\ nLogOps < MaxLogOps
    /\ LogWritten("set", i, <<key, value>>,
           DiskEngine_set(inst[i].keydir, files[inst[i].path], key, value, written))

\* DiskEngine::delete whose write fails after `written` bytes
LogDeleteFails(i, key, written) ==
    /\ inst[i].open
    /\ nLogOps < MaxLogOps
    /\ LogWritten("delete", i, <<key>>,
           DiskEngine_delete(inst[i].keydir, files[inst[i].path], key, written))

\* DiskEngine::get
LogGet(i, key) ==
    /\ inst[i].open
    /\ lastLog' = LogCall("get", i, key,
                          DiskEngine_get(inst[i].keydir, files[inst[i].path], key))
    /\ UNCHANGED <<files, inst, nLogOps, nCompacts, mvccVars>>

\* what a scan that made iterator it yields, consumed from the front or
\* from the back
ScanResult(e, it, back) ==
    IF it.panic THEN [err |-> "panic", val |-> <<>>]
    ELSE Ok(IF back THEN CollectNextBack(e.keydir, files[e.path], it.inner)
                    ELSE CollectNext(e.keydir, files[e.path], it.inner))

\* DiskEngine::scan, consumed to its end
LogScan(i, start, end, back) ==
    /\ inst[i].open
    /\ lastLog' = LogCall(IF back THEN "scan_rev" ELSE "scan", i, <<start, end>>,
                          ScanResult(inst[i], DiskEngine_scan(inst[i].keydir, start, end), back))
    /\ UNCHANGED <<files, inst, nLogOps, nCompacts, mvccVars>>

\* Engine::scan_prefix, consumed to its end
LogScanPrefix(i, prefix, build) ==
    /\ inst[i].open
    /\ lastLog' = LogCall("scan_prefix", i, prefix,
                          ScanResult(inst[i], DiskEngine_scan_prefix(inst[i].keydir, prefix, build), FALSE))
    /\ UNCHANGED <<files, inst, nLogOps, nCompacts, mvccVars>>

NextLog ==
    \/ \E i \in LogInsts, p \in Paths : LogOpen(i, p)
    \/ \E i \in LogInsts, p \in Paths : LogOpenCompact(i, p)
    \/ \E i \in LogInsts : LogClose(i)
    \/ \E i \in LogInsts, k \in LogKeys, v \in LogValues : LogSet(i, k, v)
    \/ \E i \in LogInsts, k \in LogKeys : LogDelete(i, k)
    \/ \E i \in LogInsts, k \in LogKeys : LogGet(i, k)
    \/ \E i \in LogInsts, r \in ScanRanges, b \in BOOLEAN :
          LogScan(i, r[1], r[2], b)
    \/ \E i \in LogInsts, p \in LogPrefixes, b \in Builds : LogScanPrefix(i, p, b)

\* the log engine while every write reaches the file
SpecLog == Init /\ [][NextLog]_vars

\* one engine on one log, with writes that reach the file and writes that
\* fail after any number of bytes of the record
NextLogFaults ==
    \/ LogOpen(1, "db.log")
    \/ LogOpenCompact(1, "db.log")
    \/ LogClose(1)
    \/ \E k \in LogKeys, v \in LogValues : LogSet(1, k, v)
    \/ \E k \in LogKeys : LogDelete(1, k)
    \/ \E k \in LogKeys : LogGet(1, k)
    \/ \E k \in LogKeys, v \in LogValues :
          \E n \in 0..(EntrySize(k, Some(v)) - 1) : LogSetFails(1, k, v, n)
    \/ \E k \in LogKeys :
          \E n \in 0..(EntrySize(k, None) - 1) : LogDeleteFails(1, k, n)

\* the log engine with writes that fail part way
SpecLogFaults == Init /\ [][NextLogFaults]_vars

\* ------------------------------------- log engine: stopped compaction
MaxStaleBytes == 22     \* bytes a stopped compaction may leave in the new log

\* DiskEngine::new_compact(p) in a process that stops inside the loop of
\* compact, after the records of the first n keys of the keydir have reached
\* the new log and before the rename: the new log stays beside the log, the
\* locks go with the process and no engine is returned
LogCompactStopped(i, p, n) ==
    /\ ~inst[i].open
    /\ ~Locked(p)
    /\ CompactPath(p) # p
    /\ ~Locked(CompactPath(p))
    /\ DiskEngine_new(files[p]).err = "none"
    /\ \E keydir \in {DiskEngine_new(files[p]).val} :
          /\ n \in 1..Cardinality(DOMAIN keydir)
          /\ \E c \in {CompactFold(SubSeq(SortedSeq(DOMAIN keydir), 1, n), keydir,
                                  files[p], files[CompactPath(p)], << >>)} :
                /\ c.err = "none"
                /\ Len(c.file) <= MaxStaleBytes
                /\ files' = [files EXCEPT ![CompactPath(p)] = c.file]
    /\ lastLog' = LogCall("new_compact", i, p, Err("stopped"))
    /\ UNCHANGED <<inst, nLogOps, nCompacts, mvccVars>>

\* one engine at a time on db.log, whose compaction may stop before its
\* rename
NextLogStopped ==
    \/ LogOpen(1, "db.log")
    \/ LogOpenCompact(1, "db.log")
    \/ \E n \in 1..Cardinality(LogKeys) : LogCompactStopped(1, "db.log", n)
    \/ LogClose(1)
    \/ \E k \in LogKeys, v \in LogValues : LogSet(1, k, v)
    \/ \E k \in LogKeys : LogDelete(1, k)
    \/ \E k \in LogKeys : LogGet(1, k)

\* the log engine with compactions that stop before the rename
SpecLogStopped == Init /\ [][NextLogStopped]_vars

\* ---------------------------------------------------- the process stops
RECURSIVE LogOf(_, _)
\* a log of the engine e: the records of its entries, one set per key of
\* keys, as compaction writes them
LogOf(e, keys) ==
    IF keys = <<>> THEN <<>>
    ELSE EntryBytes(Head(keys), Some(e[Head(keys)])) \o LogOf(e, Tail(keys))

\* the engine DiskEngine::new returns on the log of e: the keydir is rebuilt
\* by build_keydir and get reads every value back from the file
Reopen(e) ==
    CHOOSE x \in {[k \in DOMAIN DiskEngine_new(file).val |->
                      DiskEngine_get(DiskEngine_new(file).val, file, k).val[1]] :
                     file \in {LogOf(e, SortedSeq(DOMAIN e))}} : TRUE

\* the process stops while transactions are live and a new process opens
\* the engine: the handles of the old process are gone, its Mutex with them
Crash ==
    /\ \E h \in Handles : phase[h] = "live"
    /\ engine' = Reopen(engine)
    /\ phase' = [h \in Handles |-> IF phase[h] = "live" THEN "orphaned" ELSE phase[h]]
    /\ poisoned' = FALSE
    /\ last' = Call("reopen", 0, <<>>, Ok(None))
    /\ UNCHANGED <<txn, writes, commitSeq, endedAtBegin, nWrites, done, conflicts, logVars>>

NextCrash ==
    \/ Begin
    \/ \E h \in Handles, k \in RawKeys, v \in RawValues : Set(h, k, v)
    \/ \E h \in Handles, k \in RawKeys : Get(h, k)
    \/ \E h \in Handles, p \in RawPrefixes : ScanPrefix(h, p)
    \/ \E h \in Handles : Commit(h)
    \/ \E h \in Handles : Rollback(h)
    \/ \E h \in Handles : LockFails(h)
    \/ Crash

\* the MVCC layer over processes that stop and engines that are reopened
SpecCrash == Init /\ [][NextCrash]_vars

\* ------------------------------------------------- history of the calls
\* the handles whose commit had returned when h began
CommittedBefore(h) == {g \in endedAtBegin[h] : phase[g] = "committed"}

\* a and b are concurrent: each began before the other committed or rolled back
Concurrent(a, b) ==
    /\ a \in Begun /\ b \in Begun /\ a # b
    /\ a \notin endedAtBegin[b]
    /\ b \notin endedAtBegin[a]

CommitPos(g) == CHOOSE i \in 1..Len(commitSeq) : commitSeq[i] = g

\* the committed handles in S that wrote key and committed last among them
LatestWriter(S, key) ==
    LET W == {g \in S : phase[g] = "committed" /\ key \in DOMAIN writes[g]}
    IN  {g \in W : \A g2 \in W : CommitPos(g2) <= CommitPos(g)}

\* what the latest transaction that committed a write to key before h began
\* left there: none when no transaction did, or when it deleted the key
SnapshotValue(h, key) ==
    LET L == LatestWriter(CommittedBefore(h), key)
    IN  IF L = {} THEN None ELSE writes[CHOOSE g \in L : TRUE][key]

\* the engine without the Version entries of version v
EraseVersion(e, v) ==
    LET keep == {k \in DOMAIN e :
                    ~(decode(k).tag = TagVersion /\ decode(k).version = v)}
    IN  [k \in keep |-> e[k]]

\* the keys of e that carry version v in one of the given variants
KeysOf(e, v, tags) ==
    {k \in DOMAIN e : decode(k).tag \in tags /\ decode(k).version = v}

IsRead == last.op \in {"get", "scan_prefix"}
IsWrite == last.op \in {"set", "delete"}

\* the read recorded in last, repeated on engine e
ReadAgain(e) ==
    IF last.op = "get" THEN get(e, txn[last.h], last.key)
    ELSE scan_prefix(e, txn[last.h], last.key)

\* ---------------------------------------------------------------- claims

\* C1. Snapshot isolation: when A began before B committed, no get or
\* scan_prefix of A returns a value B set or hides a value B deleted: the
\* result of every read of A is the result the same read gives on the engine
\* without B's Version entries.
SnapshotIsolation ==
    IsRead =>
        \A b \in Begun \ ({last.h} \cup CommittedBefore(last.h)) :
            last.res = ReadAgain(EraseVersion(engine, txn[b].version))

\* C1 witness: A reads a key that B, committed after A began, has set, and A
\* does not get B's value.
SnapshotIsolationWitness ==
    /\ last.op = "get"
    /\ \E b \in Begun \ ({last.h} \cup CommittedBefore(last.h)) :
          /\ phase[b] = "committed"
          /\ last.key \in DOMAIN writes[b]
          /\ writes[b][last.key] # None
          /\ KeyVersion(last.key, txn[b].version) \in DOMAIN engine
          /\ last.res.val # writes[b][last.key]

\* C2 as stated: when a transaction concurrent with the caller has succeeded
\* in a set or delete of the same raw key, the caller's set or delete returns
\* WriteConflict.
ConflictDetectionAsStated ==
    IsWrite =>
        \A g \in Handles :
            (Concurrent(g, last.h) /\ last.key \in DOMAIN writes[g])
                => last.res.err = "conflict"

\* C2 amended: the same, for a concurrent transaction that has not rolled back.
ConflictDetection ==
    IsWrite =>
        \A g \in Handles :
            (/\ Concurrent(g, last.h)
             /\ last.key \in DOMAIN writes[g]
             /\ phase[g] # "rolledback")
                => last.res.err = "conflict"

\* C2 witness: a write is refused because of a concurrent transaction that
\* wrote the key and has committed since.
ConflictDetectionWitness ==
    /\ IsWrite
    /\ last.res.err = "conflict"
    /\ \E g \in Handles :
          /\ Concurrent(g, last.h)
          /\ last.key \in DOMAIN writes[g]
          /\ phase[g] = "committed"

RollbackErasure ==
    /\ \A h \in Handles :
          phase[h] = "rolledback" =>
              KeysOf(engine, txn[h].version, {TagVersion, TagTxnWrite, TagTxnActive}) = {}
    /\ (/\ last.op = "get"
        /\ last.key \notin DOMAIN writes[last.h]
        /\ \E h \in endedAtBegin[last.h] :
              phase[h] = "rolledback" /\ last.key \in DOMAIN writes[h])
          => last.res = Ok(SnapshotValue(last.h, last.key))

\* C5 witness: a transaction begun after the rollback of a transaction that
\* had set the key reads the key and does not get the rolled-back value.
RollbackErasureWitness ==
    /\ last.op = "get"
    /\ \E h \in endedAtBegin[last.h] :
          /\ phase[h] = "rolledback"
          /\ last.key \in DOMAIN writes[h]
          /\ writes[h][last.key] # None
          /\ last.res # Ok(writes[h][last.key])

\* the engine without the TxnWrite and TxnActive entries of version v
CommitFrame(e, v) ==
    LET keep == (DOMAIN e) \ KeysOf(e, v, {TagTxnWrite, TagTxnActive})
    IN  [k \in keep |-> e[k]]

\* C6. Commit of version v removes the TxnWrite(v, *) and TxnActive(v)
\* entries and changes no other entry: not Version(k, v), not an entry of
\* another version, not NextVersion.
CommitFrameEffect ==
    [][\A h \in Handles :
          (phase[h] = "live" /\ phase'[h] = "committed")
              => engine' = CommitFrame(engine, txn[h].version)]_vars

\* C6 witness: a commit has just returned for a transaction that wrote; its
\* Version entries and the entries of another version are in the engine.
CommitFrameEffectWitness ==
    /\ last.op = "commit"
    /\ KeysOf(engine, txn[last.h].version, {TagVersion}) # {}
    /\ KeysOf(engine, txn[last.h].version, {TagTxnWrite, TagTxnActive}) = {}
    /\ \E g \in Begun \ {last.h} :
          KeysOf(engine, txn[g].version, {TagVersion, TagTxnWrite, TagTxnActive}) # {}

\* C7. Session commit: after execute returned Ok for a statement, no
\* TxnActive entry of its transaction's version remains, and an INSERT executed
\* after a CREATE TABLE that returned Ok finds the table.
SessionCommit ==
    /\ \A i \in 1..Len(done) :
          done[i].err = "none" => KeyTxnActive(done[i].version) \notin DOMAIN engine
    /\ \A i \in 1..Len(done), j \in 1..Len(done) :
          (/\ i < j
           /\ done[i].stmt.kind = "create" /\ done[i].err = "none"
           /\ done[j].stmt.kind = "insert")
              => done[j].err # "no_table"

\* C8. Session rollback: after execute returned the error of a statement
\* whose transaction had written rows, no Version, TxnWrite or TxnActive entry
\* of that transaction's version remains.
SessionRollback ==
    \A i \in 1..Len(done) :
        (done[i].err # "none" /\ done[i].count > 0)
            => KeysOf(engine, done[i].version,
                      {TagVersion, TagTxnWrite, TagTxnActive}) = {}

\* what set or delete returns on handle h now, and whether it leaves the
\* engine as it is
WriteRejected(h, key, value) ==
    /\ write_inner(engine, txn[h], key, value).err # "none"
    /\ write_inner(engine, txn[h], key, value).engine = engine

\* C9. Transaction handle state machine: on a handle whose commit or rollback
\* has returned Ok, set, delete, get and scan_prefix return an error, and
\* set, delete, commit and rollback change nothing in the engine.
TerminatedHandleRejects ==
    \A h \in Handles :
        phase[h] \in Terminal =>
            /\ \A k \in RawKeys : WriteRejected(h, k, None)
            /\ \A k \in RawKeys, v \in RawValues : WriteRejected(h, k, Some(v))
            /\ \A k \in RawKeys : get(engine, txn[h], k).err # "none"
            /\ \A p \in RawPrefixes : scan_prefix(engine, txn[h], p).err # "none"
            /\ commit(engine, txn[h]) = engine
            /\ rollback(engine, txn[h]) = engine

\* C10. Stable snapshot: a get of a key the transaction has not written
\* returns what the latest transaction that committed a write to the key
\* before the transaction began left there, whatever has happened since.
StableSnapshot ==
    (last.op = "get" /\ last.key \notin DOMAIN writes[last.h])
        => last.res = Ok(SnapshotValue(last.h, last.key))

\* C10 witness: the transaction reads its snapshot value of a key that a
\* transaction committed after its begin has overwritten.
StableSnapshotWitness ==
    /\ last.op = "get"
    /\ last.key \notin DOMAIN writes[last.h]
    /\ last.res.val # None
    /\ \E g \in Begun \ ({last.h} \cup CommittedBefore(last.h)) :
          /\ phase[g] = "committed"
          /\ last.key \in DOMAIN writes[g]
          /\ writes[g][last.key] # last.res.val

\* ----------------------------------------------- log engine: the claims
\* what get returns for every key on an engine that DiskEngine::new would
\* build from the file of path p now
ReopenedView(p) ==
    [k \in LogKeys |->
        IF DiskEngine_new(files[p]).err # "none" THEN Err("open")
        ELSE DiskEngine_get(DiskEngine_new(files[p]).val, files[p], k)]

\* the step is a set or delete call on instance i
IsLogWrite(i) == nLogOps' = nLogOps + 1 /\ lastLog'.i = i

\* C11. Persistence across reopen: whatever set and delete calls an open
\* engine has served, dropping it and opening a new engine on its path
\* gives, for every key, the result get returns on it now.
PersistenceAcrossReopen ==
    \A i \in LogInsts :
        inst[i].open => ReopenedView(inst[i].path) = GetView(inst[i])

\* C12. Log engine as a map: a set(k, v) that returns Ok makes get(k) return
\* Some(v), the empty value included, a delete(k) makes it return None, both
\* leave get of every other key as it was, and on an empty log every get
\* returns None.
LogAsMap ==
    /\ [](\A i \in LogInsts :
            (inst[i].open /\ files[inst[i].path] = <<>>) =>
                \A k \in LogKeys : GetView(inst[i])[k] = Ok(None))
    /\ [][\A i \in LogInsts :
            (IsLogWrite(i) /\ lastLog'.res.err = "none") =>
                GetView(inst[i])' =
                    [GetView(inst[i]) EXCEPT ![lastLog'.arg[1]] =
                        IF lastLog'.op = "set" THEN Ok(Some(lastLog'.arg[2]))
                        ELSE Ok(None)]]_vars

\* C12 witness: the empty key was set to the empty value after another
\* write, and get returns it as a present empty value
LogAsMapWitness ==
    /\ lastLog.op = "get"
    /\ lastLog.arg = <<>>
    /\ lastLog.res = Ok(Some(<<>>))
    /\ nLogOps = MaxLogOps
    /\ Len(files[inst[lastLog.i].path]) > LOG_HEADER_SIZE

\* C13. Replay invariant: replaying the records of the log file of an open
\* engine in file order produces exactly its keydir.
ReplayInvariant ==
    \A i \in LogInsts :
        inst[i].open => Log_build_keydir(files[inst[i].path]) = Ok(inst[i].keydir)

\* the step is a new_compact(p) call that returned an engine, held as i
IsCompaction(i, p) ==
    /\ nCompacts' = nCompacts + 1
    /\ lastLog' = LogCall("new_compact", i, p, Ok(None))

\* C14. Compaction is value-preserving: get on the engine new_compact
\* returns equals, for every key, get on the log before compaction, and get
\* on an engine opened on the path afterwards equals it too.
CompactionPreservesValues ==
    [][\A i \in LogInsts, p \in Paths :
          IsCompaction(i, p) =>
              /\ GetView(inst[i])' = ReopenedView(p)
              /\ ReopenedView(p)' = ReopenedView(p)]_vars

RECURSIVE LiveSize(_, _)
\* the sum over the keys of a keydir of 8 + len(key) + len(value)
LiveSize(keydir, keys) ==
    IF keys = {} THEN 0
    ELSE LET k == CHOOSE k \in keys : TRUE
         IN  LOG_HEADER_SIZE + Len(k) + keydir[k][2] + LiveSize(keydir, keys \ {k})

\* C15. After compaction returns, the log file is no larger than the sum
\* over the live keys of 8 + len(key) + len(value).
CompactedSize ==
    \A i \in LogInsts :
        lastLog = LogCall("new_compact", i, inst[i].path, Ok(None))
            => Len(files[inst[i].path])
                   <= LiveSize(inst[i].keydir, DOMAIN inst[i].keydir)

\* the live keys of engine e that lie in the range
LiveInRange(e, start, end) ==
    {k \in LogKeys : GetView(e)[k] # Ok(None) /\ InRange(k, start, end)}

\* s holds, without an error, exactly the entries of engine e whose keys
\* are in K, each with the value get returns, in strictly ascending key
\* order, or in strictly descending order when back is TRUE
YieldsExactly(s, e, K, back) ==
    /\ Len(s) = Cardinality(K)
    /\ \A j \in 1..Len(s) :
          /\ s[j].err = "none"
          /\ s[j].val[1] \in K
          /\ GetView(e)[s[j].val[1]] = Ok(Some(s[j].val[2]))
    /\ \A j \in 1..(Len(s) - 1) :
          IF back THEN LexLess(s[j + 1].val[1], s[j].val[1])
                  ELSE LexLess(s[j].val[1], s[j + 1].val[1])

\* C16. Ordered scan: scan(range) returns an iterator that yields exactly
\* the live entries whose key lies in the range, in strictly ascending key
\* order from the front and in strictly descending order from the back.
OrderedScan ==
    lastLog.op \in {"scan", "scan_rev"} =>
        /\ lastLog.res.err = "none"
        /\ YieldsExactly(lastLog.res.val, inst[lastLog.i],
                         LiveInRange(inst[lastLog.i], lastLog.arg[1], lastLog.arg[2]),
                         lastLog.op = "scan_rev")

\* C17. Prefix scan: scan_prefix(p) returns an iterator that yields exactly
\* the live keys that start with p, in ascending order, and does not panic.
PrefixScan ==
    lastLog.op = "scan_prefix" =>
        /\ lastLog.res.err = "none"
        /\ YieldsExactly(lastLog.res.val, inst[lastLog.i],
               {k \in LogKeys :
                   /\ GetView(inst[lastLog.i])[k] # Ok(None)
                   /\ Len(lastLog.arg) <= Len(k)
                   /\ SubSeq(k, 1, Len(lastLog.arg)) = lastLog.arg},
               FALSE)

\* C18. Exclusive open: no two open engines are on the same path, and
\* DiskEngine::new on a path returns an error exactly when another engine is
\* open on that path, so it succeeds again once that engine is dropped.
ExclusiveOpen ==
    /\ \A i \in LogInsts, j \in LogInsts :
          (i # j /\ inst[i].open /\ inst[j].open) => inst[i].path # inst[j].path
    /\ lastLog.op = "new" =>
          (lastLog.res.err # "none"
              <=> \E j \in LogInsts :
                     j # lastLog.i /\ inst[j].open /\ inst[j].path = lastLog.arg)

\* C18 witness: a second DiskEngine::new on the path of an open engine that
\* has served a write returned the lock error
ExclusiveOpenWitness ==
    /\ lastLog.op = "new"
    /\ lastLog.res.err = "lock"
    /\ \E j \in LogInsts :
          inst[j].open /\ inst[j].path = lastLog.arg /\ inst[j].keydir # << >>

\* the value the keydir of engine e indexes for key k lies within the file
IndexedInFile(e, k) ==
    /\ e.keydir[k][2] >= 0
    /\ e.keydir[k][1] + e.keydir[k][2] <= Len(files[e.path])

RECURSIVE TornFrom(_, _)
\* walking the records of the file from offset by their header lengths, a
\* record extends past the end of the file
TornFrom(file, offset) ==
    IF offset >= Len(file) THEN FALSE
    ELSE IF offset + LOG_HEADER_SIZE > Len(file) THEN TRUE
    ELSE IF file[offset + 1] >= 128 THEN TRUE
    ELSE LET total == LOG_HEADER_SIZE + U32FromBE(file, offset)
                      + (IF I32FromBE(file, offset + 4) > 0
                         THEN I32FromBE(file, offset + 4) ELSE 0)
         IN  IF offset + total > Len(file) THEN TRUE
             ELSE TornFrom(file, offset + total)

\* C20. Torn trailing record: DiskEngine::new on a log whose last record
\* extends past the end of the file returns an error and no engine.
TornRecordRejected ==
    lastLog.op = "new" =>
        (TornFrom(files[lastLog.arg], 0) => lastLog.res.err # "none")

\* ------------------------------------------------ MVCC layer: invariants
\* the versions v for which the engine holds an entry of one of the variants
VersionsOf(e, tags) ==
    {decode(k).version : k \in {x \in DOMAIN e : decode(x).tag \in tags}}

\* C21. Version counter invariant: after the first begin the engine holds
\* NextVersion, and the stored counter is strictly greater than every v of a
\* TxnActive(v) or Version(k, v) entry.
VersionCounter ==
    Begun # {} =>
        /\ KeyNextVersion \in DOMAIN engine
        /\ \A v \in VersionsOf(engine, {TagTxnActive, TagVersion}) :
              U64FromLE(engine[KeyNextVersion]) > v

\* C21 witness: the engine holds the Version entry of a committed
\* transaction and the TxnActive entry of a later, live one.
VersionCounterWitness ==
    /\ KeyNextVersion \in DOMAIN engine
    /\ \E v \in VersionsOf(engine, {TagVersion}), w \in VersionsOf(engine, {TagTxnActive}) :
          v < w /\ v \notin VersionsOf(engine, {TagTxnActive})

\* C22. Unique increasing versions: the first begin returns version 1 and
\* every begin returns a version strictly greater than the version of every
\* transaction begun before it.
UniqueVersions ==
    [][\A h \in Handles :
          (phase[h] = "none" /\ phase'[h] = "live") =>
              /\ last'.res = Ok(Some(<<txn'[h].version>>))
              /\ Begun = {} => txn'[h].version = 1
              /\ \A g \in Begun : txn'[h].version > txn[g].version]_vars

\* C22 witness: the third begin returned version 3 after the first
\* transaction had rolled back and the second had committed.
UniqueVersionsWitness ==
    /\ last.op = "begin"
    /\ last.res = Ok(Some(<<3>>))
    /\ phase[1] = "rolledback"
    /\ phase[2] = "committed"

\* C23. Live transaction invariant: for every transaction that has begun and
\* has neither committed nor rolled back, the TxnActive entry of its version
\* is in the engine and its version is not in its active_versions.
LiveTransaction ==
    \A h \in Handles :
        phase[h] = "live" =>
            /\ KeyTxnActive(txn[h].version) \in DOMAIN engine
            /\ txn[h].version \notin txn[h].active_versions

\* C23 witness: a live transaction whose snapshot holds the version of a
\* transaction that has committed since, beside a third one that is live.
LiveTransactionWitness ==
    \E h \in Handles, g \in Handles, f \in Handles :
        /\ phase[h] = "live" /\ phase[g] = "committed" /\ phase[f] = "live"
        /\ h # f
        /\ txn[g].version \in txn[h].active_versions
        /\ KeyTxnActive(txn[g].version) \notin DOMAIN engine

\* the handles whose transaction has committed
Committed == {h \in Handles : phase[h] = "committed"}

ConflictLeavesNoTrace ==
    [][(last'.op \in {"set", "delete"} /\ last'.res.err = "conflict") =>
          /\ engine' = engine
          /\ txn' = txn
          /\ phase'[last'.h] = "live"
          /\ KeyTxnActive(txn'[last'.h].version) \in DOMAIN engine']_vars

\* C25 witness: a delete has returned WriteConflict to a live transaction
\* because of the write of a transaction that committed after it began.
ConflictLeavesNoTraceWitness ==
    /\ last.op = "delete"
    /\ last.res.err = "conflict"
    /\ phase[last.h] = "live"
    /\ \E g \in Committed \ endedAtBegin[last.h] : last.key \in DOMAIN writes[g]

\* ------------------------------------------------- MVCC layer: the reads
\* the versions of raw key k that are stored and visible to the state st
VisibleVersions(e, st, k) ==
    {w \in 0..st.version :
        KeyVersion(k, w) \in DOMAIN e /\ w \notin st.active_versions}

\* the payload at the greatest visible version of k: none when there is no
\* visible version or when the payload is a tombstone
LatestVisible(e, st, k) ==
    LET W == VisibleVersions(e, st, k)
    IN  IF W = {} THEN None
        ELSE DeserializeOption(e[KeyVersion(k, CHOOSE w \in W : \A u \in W : u <= w)])

StartsWith(k, p) == Len(p) <= Len(k) /\ SubSeq(k, 1, Len(p)) = p

\* the entries the scan of prefix p is to return: one for each raw key that
\* begins with p and whose latest visible version holds a value, by
\* ascending raw key
VisibleEntries(e, st, p) ==
    LET ks == SortedSeq({k \in RawKeys :
                  StartsWith(k, p) /\ LatestVisible(e, st, k) # None})
    IN  [i \in 1..Len(ks) |-> <<ks[i], LatestVisible(e, st, ks[i])[1]>>]

\* C27. scan_prefix(p) returns, for every raw prefix p, one entry for each
\* raw key beginning with p whose latest visible version holds a value, with
\* that value, no entry for the other keys, and the entries by ascending raw
\* key.
ScanLatestVisible ==
    last.op = "scan_prefix" =>
        last.res = Ok(VisibleEntries(engine, txn[last.h], last.key))

\* the versions v of which the engine holds a TxnActive entry
ActiveAt(e) == {v \in 0..(2 * MaxHandles) : KeyTxnActive(v) \in DOMAIN e}

\* C28. Begin snapshot: the active_versions of a transaction are the
\* versions whose TxnActive entry was in the engine when it began, its own
\* excluded, and the state of a transaction never changes after its begin.
BeginSnapshot ==
    [][\A h \in Handles :
          /\ (phase[h] = "none" /\ phase'[h] = "live") =>
                /\ txn'[h].active_versions = ActiveAt(engine)
                /\ txn'[h].active_versions = ActiveAt(engine') \ {txn'[h].version}
          /\ phase[h] # "none" => txn'[h] = txn[h]]_vars

\* C28 witness: a transaction began while one transaction was live and
\* another had committed; the live one has rolled back since.
BeginSnapshotWitness ==
    \E h \in Handles, g \in Handles, f \in Handles :
        /\ phase[h] = "live" /\ phase[g] = "rolledback"
        /\ f \in CommittedBefore(h)
        /\ txn[h].active_versions = {txn[g].version}

\* C29. Conflict-scan lower bound: for every live transaction the lower
\* bound write_inner uses is min(active_versions U {version + 1}), every
\* member of active_versions being below the transaction's own version.
ConflictLowerBound ==
    \A h \in Handles :
        phase[h] = "live" =>
            /\ \A a \in txn[h].active_versions : a < txn[h].version
            /\ ConflictFrom(txn[h]) = Min(txn[h].active_versions \cup {txn[h].version + 1})

\* C29 witness: a live transaction with two versions in its active_versions.
ConflictLowerBoundWitness ==
    \E h \in Handles :
        phase[h] = "live" /\ Cardinality(txn[h].active_versions) >= 2

\* ----------------------------------------------- MVCC layer: the retry
\* handle c began after a had received WriteConflict on key k because of the
\* write of b and had rolled back, and after b had committed or rolled back
RetriesAfter(c, a, b, k) ==
    /\ a # c /\ b # c /\ a # b
    /\ <<k, txn[b].version>> \in conflicts[a]
    /\ phase[a] = "rolledback"
    /\ a \in endedAtBegin[c]
    /\ b \in endedAtBegin[c]

\* C30 as stated. Conflict recovery: a transaction begun after the
\* transaction that received WriteConflict on k rolled back and the holder
\* of the conflicting write committed or rolled back sets k successfully,
\* provided no other live transaction has written k.
RetrySucceedsAsStated ==
    (/\ last.op = "set"
     /\ \E a \in Handles, b \in Handles : RetriesAfter(last.h, a, b, last.key)
     /\ \A g \in Handles \ {last.h} :
           phase[g] = "live" => last.key \notin DOMAIN writes[g])
        => last.res.err = "none"

\* C30. Conflict recovery: the same, provided no other transaction that was
\* live when the new transaction began, or that began later, has written k
\* and not rolled back.
RetrySucceeds ==
    (/\ last.op = "set"
     /\ \E a \in Handles, b \in Handles : RetriesAfter(last.h, a, b, last.key)
     /\ \A g \in Handles \ ({last.h} \cup endedAtBegin[last.h]) :
           phase[g] # "rolledback" => last.key \notin DOMAIN writes[g])
        => last.res.err = "none"

\* C30 witness: the new transaction has set the key the committed
\* transaction had written, while a transaction older than both is live.
RetrySucceedsWitness ==
    /\ last.op = "set"
    /\ last.res.err = "none"
    /\ \E a \in Handles, b \in Handles :
          /\ RetriesAfter(last.h, a, b, last.key)
          /\ phase[b] = "committed"
          /\ KeyVersion(last.key, txn[b].version) \in DOMAIN engine
    /\ \E g \in Handles : phase[g] = "live" /\ txn[g].version < txn[last.h].version

\* ------------------------------------------- log engine: the file grows
\* the val_len a set or delete call with argument arg writes
CallValLen(op, arg) == IF op = "set" THEN Len(arg[2]) ELSE -1

\* C32. Append-only log: every set or delete that returns Ok appends exactly
\* one record of 8 + key_len + max(val_len, 0) bytes at the end of the log
\* file and leaves every byte that was in the file, and every other file, as
\* it was; the record of a delete has val_len = -1 and no value bytes.
AppendOnlyLog ==
    [][\A i \in LogInsts :
          (IsLogWrite(i) /\ lastLog'.res.err = "none") =>
              /\ Len(files'[inst[i].path])
                    = Len(files[inst[i].path]) + 8 + Len(lastLog'.arg[1])
                      + (IF lastLog'.op = "set" THEN Len(lastLog'.arg[2]) ELSE 0)
              /\ SubSeq(files'[inst[i].path], 1, Len(files[inst[i].path]))
                    = files[inst[i].path]
              /\ \A q \in Paths : q # inst[i].path => files'[q] = files[q]
              /\ Log_read_entry(files'[inst[i].path], Len(files[inst[i].path]))
                    = Ok([key |-> lastLog'.arg[1],
                          val_size |-> CallValLen(lastLog'.op, lastLog'.arg)])
              /\ lastLog'.op = "set" =>
                    SubSeq(files'[inst[i].path],
                           Len(files'[inst[i].path]) - Len(lastLog'.arg[2]) + 1,
                           Len(files'[inst[i].path])) = lastLog'.arg[2]]_vars

\* C32 witness: a delete returned Ok on a log that held a record already; the
\* file ends with the 8 + key_len bytes of its tombstone
AppendOnlyLogWitness ==
    /\ lastLog.op = "delete"
    /\ lastLog.res.err = "none"
    /\ lastLog.arg[1] # <<>>
    /\ nLogOps = MaxLogOps
    /\ inst[lastLog.i].open
    /\ Len(files[inst[lastLog.i].path]) > LOG_HEADER_SIZE + Len(lastLog.arg[1])
    /\ I32FromBE(files[inst[lastLog.i].path],
                 Len(files[inst[lastLog.i].path]) - Len(lastLog.arg[1]) - 4) = -1

\* ------------------------------------------ log engine: the keydir range
\* C33. Keydir range invariant: in every reachable state of the log engine,
\* directly after open included, every keydir entry (offset, len) of an open
\* engine has len >= 0 and offset + len <= file size, and get on a key
\* present in the keydir does not fail.
KeydirInRange ==
    \A i \in LogInsts :
        inst[i].open =>
            \A k \in DOMAIN inst[i].keydir :
                /\ IndexedInFile(inst[i], k)
                /\ GetView(inst[i])[k].err = "none"

\* --------------------------------------- log engine: the compacted file
RECURSIVE LiveRecords(_, _)
\* one record per key of keys, a sequence in ascending order, for which the
\* view holds a value: the record of the key and that value
LiveRecords(view, keys) ==
    IF keys = <<>> THEN <<>>
    ELSE (IF view[Head(keys)].err = "none" /\ view[Head(keys)].val # None
          THEN EntryBytes(Head(keys), view[Head(keys)].val)
          ELSE <<>>)
         \o LiveRecords(view, Tail(keys))

\* C34. Compacted log contents: after compaction the log file is exactly
\* one non-tombstone record per live key, in ascending key order, each
\* holding the value get returned for the key before the compaction, and
\* nothing else.
CompactedLogContents ==
    [][\A i \in LogInsts, p \in Paths :
          IsCompaction(i, p) =>
              files'[p] = LiveRecords(ReopenedView(p), SortedSeq(LogKeys))]_vars

\* ----------------------------------- log engine: the stopped compaction
\* what get returns for every key on an engine opened on the file
FileView(file) ==
    [k \in LogKeys |->
        IF DiskEngine_new(file).err # "none" THEN Err("open")
        ELSE DiskEngine_get(DiskEngine_new(file).val, file, k)]

\* what get returns for every key after new_compact(p) and a reopen when no
\* compaction has stopped before: the new log is created by the compaction
CompactedView(p) ==
    IF DiskEngine_new(files[p]).err # "none" THEN [k \in LogKeys |-> Err("open")]
    ELSE CHOOSE view \in
             {FileView(file) :
                 file \in {DiskEngine_compact(keydir, files[p], <<>>).file :
                              keydir \in {DiskEngine_new(files[p]).val}}} : TRUE

\* C35. Interrupted compaction is harmless: when compactions have stopped
\* before their rename, the log was reopened and served further sets and
\* deletes, a later compaction that runs to completion followed by a reopen
\* gives for every key the get result the same set and delete calls give
\* without the stopped compactions.
StoppedCompactionHarmless ==
    [][IsCompaction(1, "db.log") =>
          \A file \in {files'["db.log"]} :
              FileView(file) = CompactedView("db.log")]_vars

\* ------------------------------------------ MVCC layer: the live writers
\* the live handles whose transaction holds a Version entry of raw key k
LiveWriters(k) ==
    {h \in Handles :
        phase[h] = "live" /\ KeyVersion(k, txn[h].version) \in DOMAIN engine}

\* C36. Single uncommitted writer: while no handle is used after its commit
\* or rollback, for every raw key at most one live transaction has a
\* Version entry of the key.
SingleUncommittedWriter ==
    \A k \in RawKeys : Cardinality(LiveWriters(k)) <= 1

\* C36 witness: a live transaction holds a write to a key and the set of
\* another live transaction on that key has just returned WriteConflict
SingleUncommittedWriterWitness ==
    /\ last.op = "set"
    /\ last.res.err = "conflict"
    /\ phase[last.h] = "live"
    /\ \E g \in LiveWriters(last.key) : g # last.h

\* ------------------------------------------- MVCC layer: scan and get
\* the entries a scan_prefix call returned: none when it did not return
EntriesOf(res) == IF res.err = "none" THEN res.val ELSE <<>>

\* the values the entries hold for raw key k
ValuesFor(entries, k) ==
    {entries[i][2] : i \in {j \in 1..Len(entries) : entries[j][1] = k}}

\* C38. Scan and get agree: after scan_prefix(p) of a transaction, for every
\* raw key k starting with p, the scan holds the entry (k, v) exactly when
\* get(k) of the transaction returns v at that point, and holds no entry for
\* k exactly when get(k) returns none.
ScanAndGetAgree ==
    last.op = "scan_prefix" =>
        \A k \in RawKeys :
            StartsWith(k, last.key) =>
                /\ \A v \in RawValues :
                      (v \in ValuesFor(EntriesOf(last.res), k))
                          <=> get(engine, txn[last.h], k) = Ok(Some(v))
                /\ (ValuesFor(EntriesOf(last.res), k) = {})
                          <=> get(engine, txn[last.h], k) = Ok(None)

\* ------------------------------------- MVCC layer: commit and rollback
\* the step is a commit or rollback call of handle h
IsEnd(h) ==
    /\ ~poisoned
    /\ phase[h] = "live"
    /\ last'.h = h
    /\ last'.op \in {"commit", "rollback"}

\* C37. Commit and rollback work at every version: whatever the version v
\* of the transaction, 255 included, commit and rollback return Ok, leave
\* no TxnWrite(v, *) entry and no TxnActive(v), remove and change no entry
\* of another version, and leave the engine usable by later operations.
EndAtEveryVersion ==
    [][\A h \in Handles :
          IsEnd(h) =>
              /\ last'.res.err = "none"
              /\ ~poisoned'
              /\ KeysOf(engine', txn[h].version, {TagTxnActive, TagTxnWrite}) = {}
              /\ \A key \in DOMAIN engine :
                    (decode(key).version # txn[h].version
                        \/ decode(key).tag = TagNextVersion)
                        => key \in DOMAIN engine' /\ engine'[key] = engine[key]
              /\ DOMAIN engine' \subseteq DOMAIN engine]_vars

\* ----------------------------------------- MVCC layer: the orphans
\* the handles that were live when their process stopped
Orphans == {h \in Handles : phase[h] = "orphaned"}

RECURSIVE EraseVersions(_, _)
\* the engine without the Version entries of the versions of the handles hs
EraseVersions(e, hs) ==
    IF hs = {} THEN e
    ELSE LET h == CHOOSE x \in hs : TRUE
         IN  EraseVersions(EraseVersion(e, txn[h].version), hs \ {h})

\* C31. Orphan transactions: once the process has stopped while a
\* transaction of version v was live and the engine was reopened,
\* TxnActive(v) is present, v is in the active_versions of every transaction
\* begun afterwards, and every read of a later transaction returns what it
\* returns on the engine without the values written at version v.
OrphanTransactions ==
    /\ \A h \in Orphans :
          /\ KeyTxnActive(txn[h].version) \in DOMAIN engine
          /\ \A g \in Handles :
                (phase[g] # "none" /\ h \in endedAtBegin[g])
                    => txn[h].version \in txn[g].active_versions
    /\ (IsRead /\ phase[last.h] = "live")
          => last.res = ReadAgain(EraseVersions(engine, Orphans))

\* C31 witness: a transaction begun after the process stopped reads a key
\* that an orphan wrote, whose Version entry is still in the engine
OrphanTransactionsWitness ==
    /\ last.op = "get"
    /\ phase[last.h] = "live"
    /\ \E h \in Orphans :
          /\ h \in endedAtBegin[last.h]
          /\ KeyVersion(last.key, txn[h].version) \in DOMAIN engine
          /\ txn[h].version \in txn[last.h].active_versions

====
